---- MODULE Spec2Model ----
(***************************************************************************)
(* Model of simple_fansd.py: a fan-speed daemon that samples a CPU         *)
(* temperature, maps it to a fan level with temp_fan_speed_curve and       *)
(* applies it through ipmitool with an asymmetric hysteresis (main_loop).  *)
(***************************************************************************)
EXTENDS Integers, Sequences, FiniteSets

VARIABLES
    DEFAULT_FAN_SPEED,          \* configuration, fixed at import time
    SLOW_DOWN_INTERVAL_COUNT,   \* configuration, fixed at import time
    pc,                         \* "running" | "crashed" (uncaught exception)
    fan_speed,                  \* main_loop local
    slow_down_interval_count,   \* main_loop local
    last,                       \* what the most recent loop iteration did
    run_len,                    \* history: length of the current unbroken run of lower-target ticks
    run_fresh,                  \* history: that run began with the countdown at its reset value
    ticks_since_reset,          \* history: ticks elapsed since the countdown was last set to N
    scen,                       \* history: targets seen since start while they follow a scenario
    failed_for,                 \* history: target of a failed apply while the target has not moved
    last_sent,                  \* history: level the latest ipmitool_set_fan_speed put on the wire
    other,                      \* second run of main_loop (same readings, other outcomes)
    bmc                         \* a single direct call of ipmitool_set_fan_speed

vars == <<DEFAULT_FAN_SPEED, SLOW_DOWN_INTERVAL_COUNT, pc, fan_speed,
          slow_down_interval_count, last, run_len, run_fresh,
          ticks_since_reset, scen, failed_for, last_sent, other, bmc>>

----------------------------------------------------------------------------
(* Bounds and input sets *)

MaxN == 3
MaxLevel == 70

MAX_FAN_SPEED == 64

DefaultFanSpeeds == {5, 20, 32, 70}
IntervalCounts == 0..MaxN
SinceCap == MaxN + 2

Outcomes == {"ok", "fail", "timeout"}

TempValues == {-100, -5, 0, 1, 49999, 50000, 60999, 61000, 65999, 66000, 200000}

\* content of the sensor file: text that int() accepts, or text it rejects
NoText == [ok |-> FALSE, val |-> 0]
SensorTexts == {[ok |-> TRUE, val |-> v] : v \in TempValues}
               \cup {[ok |-> FALSE, val |-> 0]}

Min(a, b) == IF a < b THEN a ELSE b

----------------------------------------------------------------------------
(* Temperatures: an integer or float("inf") *)

_MAXIUM_TEMP == [inf |-> TRUE, val |-> 0]

TempLt(t, n) == ~t.inf /\ t.val < n
TempGt(t, n) == t.inf \/ t.val > n

get_temp_zero_on_error(raw) ==
    IF raw.ok THEN [inf |-> FALSE, val |-> raw.val] ELSE [inf |-> FALSE, val |-> 0]

get_temp(raw) ==
    IF raw.ok THEN [inf |-> FALSE, val |-> raw.val] ELSE _MAXIUM_TEMP

temp_fan_speed_curve(temp) ==
    IF TempGt(temp, 0) /\ TempLt(temp, 50000) THEN 20
    ELSE IF TempLt(temp, 61000) THEN 32
    ELSE IF TempLt(temp, 66000) THEN 48
    ELSE MAX_FAN_SPEED

----------------------------------------------------------------------------
(* The BMC command wrapper *)

\* what subprocess.check_call raises for an outcome, and the except clauses
Raised(outcome) ==
    CASE outcome = "ok" -> "none"
      [] outcome = "fail" -> "CalledProcessError"
      [] outcome = "timeout" -> "TimeoutExpired"

Caught_no_timeout(exc) == exc = "CalledProcessError"

Caught(exc) == exc \in {"CalledProcessError", "TimeoutExpired"}

subprocess_call(outcome) == outcome = "ok"

\* f"0x{fan_speed}": the decimal digits of fan_speed are read as a hex byte
HexArg(n) == 256 * (n \div 100) + 16 * ((n \div 10) % 10) + (n % 10)

Clamp_to_default(level) ==
    IF level > MAX_FAN_SPEED \/ level < DEFAULT_FAN_SPEED
    THEN DEFAULT_FAN_SPEED ELSE level

Clamp_upper_only(level) ==
    IF level > MAX_FAN_SPEED THEN MAX_FAN_SPEED ELSE level

Clamp(level) ==
    IF level > MAX_FAN_SPEED \/ level < DEFAULT_FAN_SPEED
    THEN MAX_FAN_SPEED ELSE level

enable_manual_speed_set == <<48, 48, 1, 0>>
set_fans_speed(level) == <<48, 48, 2, 255, HexArg(level)>>

ipmitool_set_fan_speed_no_early_return(level, oa, ob) ==
    LET fs == Clamp(level)
        a  == [cmd |-> enable_manual_speed_set, outcome |-> oa]
        b  == [cmd |-> set_fans_speed(fs), outcome |-> ob]
    IN  [requested |-> level, sent |-> fs, invocations |-> <<a, b>>,
         ret |-> subprocess_call(ob)]

ipmitool_set_fan_speed(level, oa, ob) ==
    LET fs == Clamp(level)
        a  == [cmd |-> enable_manual_speed_set, outcome |-> oa]
        b  == [cmd |-> set_fans_speed(fs), outcome |-> ob]
    IN  IF ~subprocess_call(oa)
        THEN [requested |-> level, sent |-> fs, invocations |-> <<a>>, ret |-> FALSE]
        ELSE IF subprocess_call(ob)
        THEN [requested |-> level, sent |-> fs, invocations |-> <<a, b>>, ret |-> TRUE]
        ELSE [requested |-> level, sent |-> fs, invocations |-> <<a, b>>, ret |-> FALSE]

\* an exception of an invocation that no except clause of _subprocess_call
\* takes leaves ipmitool_set_fan_speed and main_loop
Escapes(calls) ==
    \E i \in 1..Len(calls) : \E j \in 1..Len(calls[i].invocations) :
        LET exc == Raised(calls[i].invocations[j].outcome)
        IN  exc # "none" /\ ~Caught(exc)

----------------------------------------------------------------------------
(* One iteration of the while-loop of main_loop *)

SlowDownDue_off_by_one(cd) == cd <= 0

SlowDownDue_late(cd) == cd < -1

SlowDownDue(cd) == cd < 0

SlowDownDeferrable_strict(cd) == cd > 0

SlowDownDeferrable(cd) == cd >= 0

\* variants of the iteration that a slip in main_loop would produce: the state
\* update of a branch made to depend on the result of the BMC call, or the
\* countdown reset of the speed-up branch left out
IterVariant(fs, cd, temp, oa, ob, gate_up, gate_down, keep_cd) ==
    LET new_fan_speed == temp_fan_speed_curve(temp)
        call == ipmitool_set_fan_speed(new_fan_speed, oa, ob)
    IN  IF new_fan_speed > fs
        THEN [branch |-> "speed_up",
              fan_speed |-> IF gate_up /\ ~call.ret THEN fs ELSE new_fan_speed,
              slow_down_interval_count |->
                  IF keep_cd \/ (gate_up /\ ~call.ret) THEN cd
                  ELSE SLOW_DOWN_INTERVAL_COUNT,
              calls |-> <<call>>]
        ELSE IF new_fan_speed < fs /\ SlowDownDue(cd)
        THEN [branch |-> "slow_down",
              fan_speed |-> IF gate_down /\ ~call.ret THEN fs ELSE new_fan_speed,
              slow_down_interval_count |->
                  IF gate_down /\ ~call.ret THEN cd ELSE SLOW_DOWN_INTERVAL_COUNT,
              calls |-> <<call>>]
        ELSE IF new_fan_speed < fs /\ SlowDownDeferrable(cd)
        THEN [branch |-> "defer", fan_speed |-> fs,
              slow_down_interval_count |-> cd - 1, calls |-> <<>>]
        ELSE [branch |-> "hold", fan_speed |-> fs,
              slow_down_interval_count |-> cd, calls |-> <<>>]

main_loop_iter_speed_up_on_success(fs, cd, temp, oa, ob) ==
    IterVariant(fs, cd, temp, oa, ob, TRUE, FALSE, FALSE)

main_loop_iter_commit_on_success(fs, cd, temp, oa, ob) ==
    IterVariant(fs, cd, temp, oa, ob, TRUE, TRUE, FALSE)

main_loop_iter_slow_down_on_success(fs, cd, temp, oa, ob) ==
    IterVariant(fs, cd, temp, oa, ob, FALSE, TRUE, FALSE)

main_loop_iter_no_reset(fs, cd, temp, oa, ob) ==
    IterVariant(fs, cd, temp, oa, ob, FALSE, FALSE, TRUE)

main_loop_iter_hold_resets(fs, cd, temp, oa, ob) ==
    LET r == IterVariant(fs, cd, temp, oa, ob, FALSE, FALSE, FALSE)
    IN  IF r.branch = "hold"
        THEN [r EXCEPT !.slow_down_interval_count = SLOW_DOWN_INTERVAL_COUNT]
        ELSE r

main_loop_iter_decrement_two(fs, cd, temp, oa, ob) ==
    LET r == IterVariant(fs, cd, temp, oa, ob, FALSE, FALSE, FALSE)
    IN  IF r.branch = "defer"
        THEN [r EXCEPT !.slow_down_interval_count = cd - 2]
        ELSE r

main_loop_iter(fs, cd, temp, oa, ob) ==
    LET new_fan_speed == temp_fan_speed_curve(temp)
        call == ipmitool_set_fan_speed(new_fan_speed, oa, ob)
    IN  IF new_fan_speed > fs
        THEN [branch |-> "speed_up", fan_speed |-> new_fan_speed,
              slow_down_interval_count |-> SLOW_DOWN_INTERVAL_COUNT,
              calls |-> <<call>>]
        ELSE IF new_fan_speed < fs /\ SlowDownDue(cd)
        THEN [branch |-> "slow_down", fan_speed |-> new_fan_speed,
              slow_down_interval_count |-> SLOW_DOWN_INTERVAL_COUNT,
              calls |-> <<call>>]
        ELSE IF new_fan_speed < fs /\ SlowDownDeferrable(cd)
        THEN [branch |-> "defer", fan_speed |-> fs,
              slow_down_interval_count |-> cd - 1, calls |-> <<>>]
        ELSE [branch |-> "hold", fan_speed |-> fs,
              slow_down_interval_count |-> cd, calls |-> <<>>]

----------------------------------------------------------------------------
(* Scenarios of spec section 8, as target sequences from current = 32, N = 3 *)

Scripts == { <<32, 20, 20, 20, 20, 20>>,
             <<32, 20, 20, 48, 20, 20, 20, 20>>,
             <<64, 48, 48, 48, 48, 20>> }
Dead == <<0>>

IsPrefix(p, s) == Len(p) <= Len(s) /\ SubSeq(s, 1, Len(p)) = p

----------------------------------------------------------------------------
(* Specification of the daemon *)

NoOther == [fan_speed |-> 0, slow_down_interval_count |-> 0,
            requested |-> <<>>, mine |-> <<>>, differ |-> FALSE]
NoBmc == [phase |-> "unused", level |-> 0, oa |-> "ok", ob |-> "ok",
          result |-> <<>>]

history == <<run_len, run_fresh, ticks_since_reset, scen, failed_for, last_sent>>
config == <<DEFAULT_FAN_SPEED, SLOW_DOWN_INTERVAL_COUNT>>

\* module import (configuration) and the first two lines of main_loop
InitLoop ==
    /\ DEFAULT_FAN_SPEED \in DefaultFanSpeeds
    /\ SLOW_DOWN_INTERVAL_COUNT \in IntervalCounts
    /\ pc = "running"
    /\ fan_speed = DEFAULT_FAN_SPEED
    /\ slow_down_interval_count = SLOW_DOWN_INTERVAL_COUNT
    /\ last = [branch |-> "none", raw |-> NoText, temp |-> _MAXIUM_TEMP, target |-> 0,
               old_speed |-> DEFAULT_FAN_SPEED,
               old_cd |-> SLOW_DOWN_INTERVAL_COUNT, calls |-> <<>>]
    /\ run_len = 0
    /\ run_fresh = FALSE
    /\ ticks_since_reset = 0
    /\ scen = <<>>
    /\ failed_for = 0
    /\ last_sent = 0

Init == InitLoop /\ other = NoOther /\ bmc = NoBmc

LastRec(raw, temp, r) ==
    [branch |-> r.branch, raw |-> raw, temp |-> temp, target |-> temp_fan_speed_curve(temp),
     old_speed |-> fan_speed, old_cd |-> slow_down_interval_count,
     calls |-> r.calls]

\* bookkeeping of the history variables for an iteration with result r
History(temp, r) ==
    LET target == temp_fan_speed_curve(temp)
        lower  == target < fan_speed
        cont   == last.branch = "defer"
    IN  /\ run_len' = IF lower THEN (IF cont THEN run_len + 1 ELSE 1) ELSE 0
        /\ run_fresh' = IF lower
                        THEN (IF cont THEN run_fresh
                              ELSE slow_down_interval_count = SLOW_DOWN_INTERVAL_COUNT)
                        ELSE FALSE
        /\ ticks_since_reset' = IF r.calls # <<>> THEN 0
                                ELSE Min(ticks_since_reset + 1, SinceCap)
        /\ scen' = IF scen # Dead /\ \E s \in Scripts : IsPrefix(Append(scen, target), s)
                   THEN Append(scen, target) ELSE Dead
        /\ failed_for' = IF r.calls # <<>>
                         THEN (IF r.calls[1].ret THEN 0 ELSE target)
                         ELSE IF target = failed_for THEN failed_for ELSE 0
        /\ last_sent' = IF r.calls # <<>> THEN r.calls[1].sent ELSE last_sent

Iterate(branch, raw, oa, ob) ==
    LET temp == get_temp(raw)
        r == main_loop_iter(fan_speed, slow_down_interval_count, temp, oa, ob)
    IN  /\ pc = "running"
        /\ r.branch = branch
        /\ pc' = IF Escapes(r.calls) THEN "crashed" ELSE pc
        /\ fan_speed' = IF Escapes(r.calls) THEN fan_speed ELSE r.fan_speed
        /\ slow_down_interval_count' =
               IF Escapes(r.calls) THEN slow_down_interval_count
               ELSE r.slow_down_interval_count
        /\ last' = LastRec(raw, temp, r)
        /\ History(temp, r)
        /\ UNCHANGED <<config, other, bmc>>

\* the second invocation has an outcome only when it is issued
SecondOutcomes(oa) == IF subprocess_call(oa) THEN Outcomes ELSE {"fail"}

SpeedUp ==
    /\ pc = "running"
    /\ \E raw \in SensorTexts, oa \in Outcomes :
           \E ob \in SecondOutcomes(oa) : Iterate("speed_up", raw, oa, ob)

SlowDown ==
    /\ pc = "running"
    /\ \E raw \in SensorTexts, oa \in Outcomes :
           \E ob \in SecondOutcomes(oa) : Iterate("slow_down", raw, oa, ob)

SlowDownDeferred ==
    /\ pc = "running"
    /\ \E raw \in SensorTexts : Iterate("defer", raw, "ok", "ok")

Hold ==
    /\ pc = "running"
    /\ \E raw \in SensorTexts : Iterate("hold", raw, "ok", "ok")

SensorIOFailure_swallowed ==
    /\ pc = "running"
    /\ pc' = "running"
    /\ last' = [branch |-> "io_error", raw |-> NoText, temp |-> _MAXIUM_TEMP, target |-> 0,
                old_speed |-> fan_speed, old_cd |-> slow_down_interval_count,
                calls |-> <<>>]
    /\ UNCHANGED <<config, fan_speed, slow_down_interval_count, history, other, bmc>>

\* Path(CPU1_TEMP_SYS).read_text() raises: nothing catches it
SensorIOFailure ==
    /\ pc = "running"
    /\ pc' = "crashed"
    /\ last' = [branch |-> "io_error", raw |-> NoText, temp |-> _MAXIUM_TEMP, target |-> 0,
                old_speed |-> fan_speed, old_cd |-> slow_down_interval_count,
                calls |-> <<>>]
    /\ UNCHANGED <<config, fan_speed, slow_down_interval_count, history, other, bmc>>

Next == SpeedUp \/ SlowDown \/ SlowDownDeferred \/ Hold \/ SensorIOFailure

Spec == Init /\ [][Next]_vars

----------------------------------------------------------------------------
(* The loop under fair scheduling: the loop body always comes round again,   *)
(* time.sleep(INTERVAL) returns.  One reading per band of the curve and an   *)
(* unparsable one; the history variables are not kept.                        *)

LiveTexts == {[ok |-> TRUE, val |-> v] : v \in {1, 50000, 61000, 66000}}
             \cup {NoText}

LiveTick ==
    /\ pc = "running"
    /\ \E raw \in LiveTexts, oa \in Outcomes : \E ob \in SecondOutcomes(oa) :
        LET temp == get_temp(raw)
            r == main_loop_iter(fan_speed, slow_down_interval_count, temp, oa, ob)
        IN  /\ pc' = IF Escapes(r.calls) THEN "crashed" ELSE pc
            /\ fan_speed' = IF Escapes(r.calls) THEN fan_speed ELSE r.fan_speed
            /\ slow_down_interval_count' =
                   IF Escapes(r.calls) THEN slow_down_interval_count
                   ELSE r.slow_down_interval_count
            /\ last' = LastRec(raw, temp, r)
            /\ UNCHANGED <<config, history, other, bmc>>

LiveSensorIOFailure == SensorIOFailure

LiveNext == LiveTick \/ LiveSensorIOFailure

SpecLive == Init /\ [][LiveNext]_vars /\ WF_vars(LiveTick)

----------------------------------------------------------------------------
(* Two runs of main_loop on the same readings with independent outcomes of   *)
(* the external invocations                                                  *)

Requested(calls) == [i \in 1..Len(calls) |-> calls[i].requested]

\* other: the second run's locals, and the levels each run asked the BMC for
\* in the latest tick (mine: the first run, requested: the second)
PairInit ==
    /\ InitLoop
    /\ other = [fan_speed |-> DEFAULT_FAN_SPEED,
                slow_down_interval_count |-> SLOW_DOWN_INTERVAL_COUNT,
                requested |-> <<>>, mine |-> <<>>, differ |-> FALSE]
    /\ bmc = NoBmc

PairTick ==
    \E raw \in SensorTexts, oa, oa2 \in Outcomes :
      \E ob \in SecondOutcomes(oa), ob2 \in SecondOutcomes(oa2) :
        LET temp == get_temp(raw)
            r  == main_loop_iter(fan_speed, slow_down_interval_count, temp, oa, ob)
            r2 == main_loop_iter(other.fan_speed, other.slow_down_interval_count,
                                 temp, oa2, ob2)
        IN  /\ pc = "running"
            /\ fan_speed' = r.fan_speed
            /\ slow_down_interval_count' = r.slow_down_interval_count
            /\ other' = [fan_speed |-> r2.fan_speed,
                         slow_down_interval_count |-> r2.slow_down_interval_count,
                         requested |-> Requested(r2.calls),
                         mine |-> Requested(r.calls),
                         differ |-> /\ r.calls # <<>>
                                    /\ r2.calls # <<>>
                                    /\ r.calls[1].ret # r2.calls[1].ret]
            /\ UNCHANGED <<config, pc, last, history, bmc>>

PairSensorIOFailure == SensorIOFailure

PairNext == PairTick \/ PairSensorIOFailure

SpecPair == PairInit /\ [][PairNext]_vars

----------------------------------------------------------------------------
(* One direct call of ipmitool_set_fan_speed with any level *)

Levels == 0..MaxLevel

BmcInit ==
    /\ InitLoop
    /\ other = NoOther
    /\ bmc \in [phase : {"ready"}, level : Levels, oa : Outcomes, ob : Outcomes,
                result : {<<>>}]

BmcCall ==
    /\ bmc.phase = "ready"
    /\ bmc' = [bmc EXCEPT !.phase = "done",
                          !.result = <<ipmitool_set_fan_speed(bmc.level, bmc.oa, bmc.ob)>>]
    /\ UNCHANGED <<config, pc, fan_speed, slow_down_interval_count, last,
                   history, other>>

BmcNext == BmcCall

SpecBmc == BmcInit /\ [][BmcNext]_vars

----------------------------------------------------------------------------
(* Properties *)

N == SLOW_DOWN_INTERVAL_COUNT
Ticked == last.branch \in {"speed_up", "slow_down", "defer", "hold"}

TypeOK ==
    /\ pc \in {"running", "crashed"}
    /\ fan_speed \in {20, 32, 48, 64} \cup DefaultFanSpeeds
    /\ slow_down_interval_count \in -1..MaxN

Scenario32 == DEFAULT_FAN_SPEED = 32 /\ N = 3

\* C1: on every tick that applies a slow-down, the N ticks immediately before
\* it were all ticks whose target was strictly below the current speed (run_len
\* counts the applying tick too).
C1_SlowDownAfterNLowerTicks ==
    last.branch = "slow_down" => run_len >= N + 1

\* C2 as stated: from a freshly reset countdown an unbroken run of lower-target
\* ticks lowers the speed on its (N+1)-th tick, and targets [32,20,20,20,20]
\* from current = 32, N = 3 end with speed 20.
C2_LoweredOnTickNPlus1 ==
    /\ (Ticked /\ run_fresh /\ run_len = N + 1) => last.branch = "slow_down"
    /\ (Scenario32 /\ scen = <<32, 20, 20, 20, 20>>) => fan_speed = 20

\* C2 amended: from a freshly reset countdown an unbroken run of lower-target
\* ticks lowers the speed on its (N+2)-th tick, neither sooner nor later;
\* targets [32,20,20,20,20] from current = 32, N = 3 leave the speed at 32 and
\* one more 20 lowers it.
C2_LoweredOnTickNPlus2 ==
    /\ (Ticked /\ run_fresh) => (last.branch = "slow_down" <=> run_len = N + 2)
    /\ (Ticked /\ run_fresh) => (last.branch = "defer" <=> run_len <= N + 1)
    /\ (Scenario32 /\ scen = <<32, 20, 20, 20, 20>>) => fan_speed = 32
    /\ (Scenario32 /\ scen = <<32, 20, 20, 20, 20, 20>>) => fan_speed = 20

C2_Witness ==
    /\ Scenario32
    /\ scen = <<32, 20, 20, 20, 20, 20>>
    /\ run_fresh /\ run_len = N + 2
    /\ last.branch = "slow_down" /\ last.old_speed = 32 /\ fan_speed = 20

\* C3: a tick whose target is above the current speed calls the BMC set
\* operation exactly once with the target and ends with fan_speed = target and
\* the countdown at N, whatever the countdown was and whatever the call returned.
C3_SpeedUpImmediate ==
    (Ticked /\ last.target > last.old_speed) =>
        /\ Len(last.calls) = 1
        /\ last.calls[1].requested = last.target
        /\ fan_speed = last.target
        /\ slow_down_interval_count = N

C3_Witness ==
    /\ Ticked /\ last.target > last.old_speed
    /\ last.old_cd < 0 /\ N > 0
    /\ ~last.calls[1].ret
    /\ fan_speed = last.target

\* C4: a tick that applies a speed change leaves the countdown at N, and a
\* slow-down is applied only when at least N+1 ticks have passed since the
\* countdown was last set to N; targets [32,20,20,48,20,20,20,20] from
\* current = 32, N = 3 end with speed 48.
C4_ResetOnChange ==
    /\ [][ /\ last'.calls # <<>> => slow_down_interval_count' = N
           /\ last'.branch = "slow_down" => ticks_since_reset >= N + 1 ]_vars
    /\ []((Scenario32 /\ scen = <<32, 20, 20, 48, 20, 20, 20, 20>>) => fan_speed = 48)

C4_Witness ==
    /\ Scenario32
    /\ scen = <<32, 20, 20, 48, 20, 20, 20, 20>>
    /\ fan_speed = 48 /\ slow_down_interval_count = -1
    /\ ticks_since_reset = N + 1

\* C5: the curve follows the band table: 20 for 0 < temp < 50000, 32 for
\* 50000 <= temp < 61000, 48 for 61000 <= temp < 66000, and 64 for
\* temp >= 66000, temp <= 0 and temp = +infinity.
C5_CurveBandTable ==
    Ticked =>
        LET t == last.temp IN
        /\ (~t.inf /\ 0 < t.val /\ t.val < 50000) => last.target = 20
        /\ (~t.inf /\ 50000 <= t.val /\ t.val < 61000) => last.target = 32
        /\ (~t.inf /\ 61000 <= t.val /\ t.val < 66000) => last.target = 48
        /\ (t.inf \/ t.val >= 66000 \/ t.val <= 0) => last.target = MAX_FAN_SPEED

\* C6: once the BMC set operation has been called, fan_speed equals the level
\* the latest call sent (the level after the range clamp).
C6_SpeedIsLastSent ==
    last_sent # 0 => fan_speed = last_sent

\* C7: two runs fed the same readings go through the same fan_speed and
\* countdown and ask the BMC for the same levels on every tick, whatever the
\* outcomes of their external invocations.
C7_OutcomeIndependent ==
    /\ other.fan_speed = fan_speed
    /\ other.slow_down_interval_count = slow_down_interval_count
    /\ other.requested = other.mine

C7_Witness ==
    /\ other.differ
    /\ other.mine # <<>>
    /\ other.fan_speed = fan_speed

\* C8: while the target stays at the level of a failed apply, a tick issues no
\* BMC invocation and leaves fan_speed alone; and a tick issues a BMC
\* invocation only when its target differs from the current speed.
C8_NoRetry ==
    [][ /\ (failed_for # 0 /\ last'.target = failed_for) =>
               (last'.calls = <<>> /\ fan_speed' = fan_speed)
        /\ last'.calls # <<>> => last'.target # fan_speed ]_vars

C8_Witness ==
    /\ failed_for # 0
    /\ last.branch = "hold"
    /\ last.target = failed_for
    /\ last.calls = <<>>
    /\ fan_speed = failed_for

BmcDone == bmc.phase = "done"
BmcResult == bmc.result[1]

\* C9: ipmitool_set_fan_speed returns true exactly when both invocations
\* succeed; when enabling manual mode fails or times out it returns false and
\* the set-speed invocation is not issued.
C9_SetReturn ==
    BmcDone =>
        /\ BmcResult.ret <=> (bmc.oa = "ok" /\ bmc.ob = "ok")
        /\ bmc.oa # "ok" =>
               /\ ~BmcResult.ret
               /\ Len(BmcResult.invocations) = 1
               /\ BmcResult.invocations[1].cmd = enable_manual_speed_set
        /\ bmc.oa = "ok" =>
               /\ Len(BmcResult.invocations) = 2
               /\ BmcResult.invocations[1].cmd = enable_manual_speed_set
               /\ BmcResult.invocations[2].cmd[3] = 2

C9_Witness ==
    /\ BmcDone
    /\ bmc.oa = "timeout" /\ bmc.ob = "ok"
    /\ ~BmcResult.ret
    /\ Len(BmcResult.invocations) = 1

\* C10: a level outside [DEFAULT_FAN_SPEED, MAX_FAN_SPEED] gives the same
\* invocations, with the speed argument of MAX_FAN_SPEED, and the same result
\* as the level MAX_FAN_SPEED under the same outcomes.
C10_OutOfRangeAsMax ==
    (BmcDone /\ (bmc.level > MAX_FAN_SPEED \/ bmc.level < DEFAULT_FAN_SPEED)) =>
        LET m == ipmitool_set_fan_speed(MAX_FAN_SPEED, bmc.oa, bmc.ob) IN
        /\ BmcResult.invocations = m.invocations
        /\ BmcResult.ret = m.ret
        /\ bmc.oa = "ok" => BmcResult.invocations[2].cmd[5] = HexArg(MAX_FAN_SPEED)

C10_Witness ==
    /\ BmcDone
    /\ bmc.level = 5 /\ DEFAULT_FAN_SPEED = 20
    /\ bmc.oa = "ok" /\ bmc.ob = "ok"
    /\ BmcResult.ret
    /\ BmcResult.invocations[2].cmd = <<48, 48, 2, 255, 100>>

SetSpeedArgs ==
    { last.calls[i].invocations[j].cmd[5] :
        <<i, j>> \in { p \in (1..Len(last.calls)) \X (1..2) :
                         /\ p[2] <= Len(last.calls[p[1]].invocations)
                         /\ Len(last.calls[p[1]].invocations[p[2]].cmd) = 5 } }

InRangeArgs == { HexArg(l) : l \in DEFAULT_FAN_SPEED..MAX_FAN_SPEED }

\* C11 as stated: every speed written into a set-speed invocation lies in
\* [DEFAULT_FAN_SPEED, MAX_FAN_SPEED], for every configured DEFAULT_FAN_SPEED.
C11_SentInRange ==
    \A a \in SetSpeedArgs : a \in InRangeArgs

\* C11 amended: when DEFAULT_FAN_SPEED <= MAX_FAN_SPEED every speed written
\* into a set-speed invocation lies in [DEFAULT_FAN_SPEED, MAX_FAN_SPEED];
\* when DEFAULT_FAN_SPEED > MAX_FAN_SPEED the range is empty and every speed
\* written is MAX_FAN_SPEED.
C11_SentInRangeOrMax ==
    \A a \in SetSpeedArgs :
        IF DEFAULT_FAN_SPEED <= MAX_FAN_SPEED
        THEN a \in InRangeArgs
        ELSE a = HexArg(MAX_FAN_SPEED)

C11_Witness ==
    /\ DEFAULT_FAN_SPEED = 32
    /\ last.branch = "slow_down" /\ last.target = 20
    /\ SetSpeedArgs = {HexArg(MAX_FAN_SPEED)}

\* C12: a tick whose sensor text is not an integer reads +infinity, has target
\* 64, speeds up to 64 in that tick when the speed was below 64, and leaves
\* the loop running.
C12_ParseFailureMaxSpeed ==
    (Ticked /\ ~last.raw.ok) =>
        /\ last.temp = _MAXIUM_TEMP
        /\ last.target = MAX_FAN_SPEED
        /\ last.old_speed < MAX_FAN_SPEED =>
               /\ last.branch = "speed_up"
               /\ Requested(last.calls) = <<MAX_FAN_SPEED>>
               /\ fan_speed = MAX_FAN_SPEED
        /\ pc = "running"

C12_Witness ==
    /\ Ticked /\ ~last.raw.ok
    /\ last.old_speed = 20
    /\ last.branch = "speed_up"
    /\ fan_speed = MAX_FAN_SPEED
    /\ pc = "running"

\* C13: a sensor I/O failure ends the loop in its tick: no BMC invocation, no
\* change of fan_speed or of the countdown, and nothing runs afterwards.
C13_IOFailureFatal ==
    /\ [](last.branch = "io_error" =>
             /\ pc = "crashed"
             /\ last.calls = <<>>
             /\ fan_speed = last.old_speed
             /\ slow_down_interval_count = last.old_cd)
    /\ [][pc = "crashed" => UNCHANGED vars]_vars
    /\ [][last'.branch = "io_error" =>
              /\ fan_speed' = fan_speed
              /\ slow_down_interval_count' = slow_down_interval_count
              /\ last_sent' = last_sent]_vars

C13_Witness ==
    /\ pc = "crashed"
    /\ last.branch = "io_error"
    /\ fan_speed # DEFAULT_FAN_SPEED
    /\ slow_down_interval_count < N

C15_EqualTargetNoEffect ==
    (Ticked /\ last.target = last.old_speed) =>
        /\ last.calls = <<>>
        /\ fan_speed = last.old_speed
        /\ slow_down_interval_count = last.old_cd

C15_Witness ==
    /\ Ticked /\ last.target = last.old_speed
    /\ last.old_cd < 0
    /\ slow_down_interval_count < 0

\* C16: a tick with a lower target and countdown >= 0 issues no BMC invocation,
\* keeps fan_speed and lowers the countdown by exactly 1; a tick with a lower
\* target and countdown < 0 calls the BMC set operation once with the target,
\* sets fan_speed to the target and the countdown to N.
C16_LowerTargetEffect ==
    /\ (Ticked /\ last.target < last.old_speed /\ last.old_cd >= 0) =>
           /\ last.calls = <<>>
           /\ fan_speed = last.old_speed
           /\ slow_down_interval_count = last.old_cd - 1
    /\ (Ticked /\ last.target < last.old_speed /\ last.old_cd < 0) =>
           /\ Requested(last.calls) = <<last.target>>
           /\ fan_speed = last.target
           /\ slow_down_interval_count = N

C16_Witness ==
    /\ Ticked /\ last.target < last.old_speed
    /\ last.old_cd = 0
    /\ slow_down_interval_count = -1
    /\ last.calls = <<>>

CurveLevels == {20, 32, 48, MAX_FAN_SPEED}

TargetIs(t) == pc = "running" /\ Ticked /\ last.target = t

C18_CountdownRange ==
    /\ -1 <= slow_down_interval_count
    /\ slow_down_interval_count <= N

C18_Witness ==
    /\ slow_down_interval_count = -1
    /\ last.branch = "defer"
    /\ N > 0

\* C19: a slow-down sets fan_speed to the target of the applying tick, whatever
\* the targets of the deferred ticks were: from 64, four deferred ticks with
\* target 48 and then a tick with target 20 give 20.
C19_SlowDownToLatestTarget ==
    /\ last.branch = "slow_down" => fan_speed = last.target
    /\ (Scenario32 /\ scen = <<64, 48, 48, 48, 48>>) => fan_speed = 64
    /\ (Scenario32 /\ scen = <<64, 48, 48, 48, 48, 20>>) => fan_speed = 20

C19_Witness ==
    /\ Scenario32
    /\ scen = <<64, 48, 48, 48, 48, 20>>
    /\ last.branch = "slow_down"
    /\ last.old_speed = 64
    /\ fan_speed = 20
====
